---- MODULE Spec2Model ----
(***************************************************************************)
(* AssetExplorerContract (contracts/hello-world/src/lib.rs): a registry of *)
(* asset records kept in the contract's instance storage, with a counter   *)
(* of registrations.  The four contract functions are the actions; the     *)
(* host (ledger clock, instance TTL) is the environment.                   *)
(*                                                                         *)
(* Integer widths: total_supply (i128) is only stored and copied, never    *)
(* computed with, so small integers stand for it.  The counter is a u64    *)
(* that is only ever incremented by one per stored record; reaching 2^64   *)
(* needs 2^64 records in one instance entry, so it is modelled unbounded.  *)
(***************************************************************************)
EXTENDS Integers, FiniteSets, Sequences, TLC

\* ---------------------------------------------------------------- bounds
NumCodes == 2
MaxTime == 2

AllCodes == <<"USDC", "NOT_FOUND", "XLM", "EURC">>
Codes == {AllCodes[i] : i \in 1..NumCodes}
Addresses == {"GAAAAAAAAAAAAAAAAAAAAAAAAAAAAAAAAAAAAAAAAAAAAAAAAAAAAWHF", "GISSUER"}
Supplies == {0 - 1, 1000000}
Descriptions == {"USD Coin"}
Timestamps == 0..MaxTime

\* ------------------------------------------------------ program constants
ASSET_COUNT == "A_COUNT"
TTL_THRESHOLD == 5000
TTL_EXTEND_TO == 5000

VARIABLES
    asset_book,   \* instance storage, keys AssetBook::Asset(code): code -> AssetInfo
    a_count,      \* instance storage, key ASSET_COUNT: absent or the u64 counter
    ttl,          \* ledgers the instance entry stays live
    now,          \* env.ledger().timestamp()
    registered,   \* codes for which register_asset has returned true
    last          \* the latest invocation: function, asset_code argument, outcome

vars == <<asset_book, a_count, ttl, now, registered, last>>

\* ------------------------------------------------------- storage (host)
\* storage().instance().get(&key).unwrap_or(default)
storage_get(map, key, default) ==
    IF key \in DOMAIN map THEN map[key] ELSE default

\* storage().instance().set(&key, &value)
storage_set(map, key, value) ==
    [k \in (DOMAIN map) \cup {key} |-> IF k = key THEN value ELSE map[k]]

\* storage().instance().extend_ttl(threshold, extend_to)
extend_ttl(t, threshold, extend_to) ==
    IF t < threshold THEN extend_to ELSE t

\* -------------------------------------------------------------- outcomes
Returned(kind, val) == [kind |-> kind, val |-> val]
Panicked(msg) == [kind |-> "panic", val |-> msg]
Invocation(op, code, outcome) == [op |-> op, code |-> code, outcome |-> outcome]

\* ------------------------------------------------------------ the contract
\* The record get_asset_info substitutes when the key is absent.
NotFoundInfo ==
    [asset_code |-> "NOT_FOUND",
     issuer |-> "GAAAAAAAAAAAAAAAAAAAAAAAAAAAAAAAAAAAAAAAAAAAAAAAAAAAAWHF",
     total_supply |-> 0,
     description |-> "Asset not found",
     is_active |-> FALSE,
     registration_time |-> 0]

\* variant: the substitute record echoes the code that was asked for
get_asset_info_echo(book, asset_code) ==
    storage_get(book, asset_code, [NotFoundInfo EXCEPT !.asset_code = asset_code])

get_asset_info_of(book, asset_code) ==
    storage_get(book, asset_code, NotFoundInfo)

get_total_assets_of(slot) ==
    storage_get(slot, ASSET_COUNT, 0)

\* variant: the duplicate check is skipped
already_exists_never(existing_asset) == FALSE

\* register_asset: the duplicate check
already_exists(existing_asset) == existing_asset.is_active

\* variant: the record is built with the placeholder description
new_asset_placeholder(asset_code, issuer, total_supply, description, time) ==
    [asset_code |-> asset_code,
     issuer |-> issuer,
     total_supply |-> total_supply,
     description |-> "Asset not found",
     is_active |-> TRUE,
     registration_time |-> time]

\* variant: the record is stamped one second late
new_asset_late(asset_code, issuer, total_supply, description, time) ==
    [asset_code |-> asset_code,
     issuer |-> issuer,
     total_supply |-> total_supply,
     description |-> description,
     is_active |-> TRUE,
     registration_time |-> time + 1]

\* register_asset: the record it builds
new_asset(asset_code, issuer, total_supply, description, time) ==
    [asset_code |-> asset_code,
     issuer |-> issuer,
     total_supply |-> total_supply,
     description |-> description,
     is_active |-> TRUE,
     registration_time |-> time]

\* variant: the increment is lost
next_count_same(count) == count

\* register_asset: count += 1
next_count(count) == count + 1

register_asset(asset_code, issuer, total_supply, description) ==
    LET existing_asset == get_asset_info_of(asset_book, asset_code) IN
    IF already_exists(existing_asset)
    THEN /\ last' = Invocation("register_asset", asset_code,
                               Panicked("Asset already exists!"))
         /\ UNCHANGED <<asset_book, a_count, ttl, now, registered>>
    ELSE LET time == now
             count == storage_get(a_count, ASSET_COUNT, 0)
         IN /\ asset_book' = storage_set(asset_book, asset_code,
                    new_asset(asset_code, issuer, total_supply, description, time))
            /\ a_count' = storage_set(a_count, ASSET_COUNT, next_count(count))
            /\ ttl' = extend_ttl(ttl, TTL_THRESHOLD, TTL_EXTEND_TO)
            /\ registered' = registered \cup {asset_code}
            /\ last' = Invocation("register_asset", asset_code, Returned("bool", TRUE))
            /\ UNCHANGED now

get_asset_info(asset_code) ==
    /\ last' = Invocation("get_asset_info", asset_code,
                          Returned("AssetInfo", get_asset_info_of(asset_book, asset_code)))
    /\ UNCHANGED <<asset_book, a_count, ttl, now, registered>>

\* variant: the existence check is skipped
not_found_never(asset) == FALSE

\* variant: the existence check is inverted
not_found_inverted(asset) == asset.is_active

\* update_asset_supply: the existence check
not_found(asset) == ~asset.is_active

\* variant: the update also overwrites the issuer with the placeholder
with_supply_reissued(asset, new_supply) ==
    [asset EXCEPT !.total_supply = new_supply, !.issuer = NotFoundInfo.issuer]

\* variant: the update also resets the registration time
with_supply_restamped(asset, new_supply) ==
    [asset EXCEPT !.total_supply = new_supply, !.registration_time = 0]

\* variant: the update deactivates a record whose supply is not positive
with_supply_deactivating(asset, new_supply) ==
    [asset EXCEPT !.total_supply = new_supply, !.is_active = new_supply > 0]

\* update_asset_supply: asset.total_supply = new_supply
with_supply(asset, new_supply) == [asset EXCEPT !.total_supply = new_supply]

update_asset_supply(asset_code, new_supply) ==
    LET asset == get_asset_info_of(asset_book, asset_code) IN
    IF not_found(asset)
    THEN /\ last' = Invocation("update_asset_supply", asset_code,
                               Panicked("Asset does not exist!"))
         /\ UNCHANGED <<asset_book, a_count, ttl, now, registered>>
    ELSE /\ asset_book' = storage_set(asset_book, asset_code, with_supply(asset, new_supply))
         /\ ttl' = extend_ttl(ttl, TTL_THRESHOLD, TTL_EXTEND_TO)
         /\ last' = Invocation("update_asset_supply", asset_code, Returned("bool", TRUE))
         /\ UNCHANGED <<a_count, now, registered>>

get_total_assets ==
    /\ last' = Invocation("get_total_assets", "",
                          Returned("u64", get_total_assets_of(a_count)))
    /\ UNCHANGED <<asset_book, a_count, ttl, now, registered>>

\* ---------------------------------------------------------------- the host
\* Ledgers close between invocations: the timestamp advances and the instance
\* entry's remaining lifetime shrinks (an entry that runs out is archived and
\* restored with the same content, which leaves it at its floor here).
CloseLedger ==
    /\ now < MaxTime
    /\ \E t \in Timestamps : t > now /\ now' = t
    /\ ttl' = IF ttl > TTL_EXTEND_TO \div 2 THEN ttl - TTL_EXTEND_TO \div 2 ELSE ttl
    /\ UNCHANGED <<asset_book, a_count, registered, last>>

Init ==
    /\ asset_book = [c \in {} |-> NotFoundInfo]
    /\ a_count = [k \in {} |-> 0]
    /\ ttl = TTL_EXTEND_TO \div 2
    /\ now = 0
    /\ registered = {}
    /\ last = Invocation("deploy", "", Returned("unit", TRUE))

RegisterAsset ==
    \E c \in Codes, i \in Addresses, s \in Supplies, d \in Descriptions :
        register_asset(c, i, s, d)

GetAssetInfo == \E c \in Codes : get_asset_info(c)

UpdateAssetSupply == \E c \in Codes, s \in Supplies : update_asset_supply(c, s)

GetTotalAssets == get_total_assets

Next ==
    \/ RegisterAsset
    \/ GetAssetInfo
    \/ UpdateAssetSupply
    \/ GetTotalAssets
    \/ CloseLedger

Spec == Init /\ [][Next]_vars

\* ================================================================ properties
IsActive(book, c) == get_asset_info_of(book, c).is_active
ActiveCodes == {c \in Codes : IsActive(asset_book, c)}
ReturnedTrue(inv) == inv.outcome.kind = "bool" /\ inv.outcome.val = TRUE
PanickedWith(inv, msg) == inv.outcome.kind = "panic" /\ inv.outcome.val = msg
\* The step is an invocation of op on code c (what the actions record in last);
\* it spares evaluating an action on the steps of the other functions.
Calls(op, c) == last'.op = op /\ last'.code = c
OthersKept(c) ==
    \A o \in Codes \ {c} :
        /\ (o \in DOMAIN asset_book') = (o \in DOMAIN asset_book)
        /\ get_asset_info_of(asset_book', o) = get_asset_info_of(asset_book, o)

\* C1: register_asset on a code with no active record returns true; afterwards
\* get_asset_info of that code is the active record holding exactly the given
\* code, issuer, supply and description and the ledger timestamp read by the
\* call, get_total_assets is one greater, and every other code's record is as
\* it was.
C1_RegisterFresh ==
    [][\A c \in Codes : (~IsActive(asset_book, c) /\ Calls("register_asset", c)) =>
        \A i \in Addresses, s \in Supplies, d \in Descriptions :
          register_asset(c, i, s, d) =>
              LET r == get_asset_info_of(asset_book', c) IN
              /\ ReturnedTrue(last')
              /\ r.is_active = TRUE
              /\ r.asset_code = c
              /\ r.issuer = i
              /\ r.total_supply = s
              /\ r.description = d
              /\ r.registration_time = now
              /\ get_total_assets_of(a_count') = get_total_assets_of(a_count) + 1
              /\ OthersKept(c)]_vars

C1_Witness ==
    /\ last.op = "register_asset"
    /\ ReturnedTrue(last)
    /\ IsActive(asset_book, last.code)
    /\ get_total_assets_of(a_count) = 2
    /\ \E o \in Codes \ {last.code} : IsActive(asset_book, o)

\* C2: register_asset on a code that has an active record aborts with
\* "Asset already exists!" whatever the other arguments are, and the stored
\* records, the counter and the instance lifetime are all unchanged.
C2_DuplicateRejected ==
    [][\A c \in Codes : (IsActive(asset_book, c) /\ Calls("register_asset", c)) =>
        \A i \in Addresses, s \in Supplies, d \in Descriptions :
          register_asset(c, i, s, d) =>
              /\ PanickedWith(last', "Asset already exists!")
              /\ asset_book' = asset_book
              /\ a_count' = a_count
              /\ ttl' = ttl]_vars

C2_Witness ==
    /\ last.op = "register_asset"
    /\ PanickedWith(last, "Asset already exists!")
    /\ IsActive(asset_book, last.code)
    /\ asset_book[last.code].registration_time < now

\* C3: update_asset_supply on a registered code returns true and changes only
\* total_supply of that code's record, to new_supply; the record's other
\* fields, every other code's record and the counter are unchanged.
C3_UpdateOnlySupply ==
    [][\A c \in Codes : (c \in registered /\ Calls("update_asset_supply", c)) =>
        \A s \in Supplies :
          update_asset_supply(c, s) =>
              LET old == get_asset_info_of(asset_book, c)
                  new == get_asset_info_of(asset_book', c)
              IN /\ ReturnedTrue(last')
                 /\ new.total_supply = s
                 /\ new.asset_code = old.asset_code
                 /\ new.issuer = old.issuer
                 /\ new.description = old.description
                 /\ new.is_active = old.is_active
                 /\ new.registration_time = old.registration_time
                 /\ DOMAIN asset_book' = DOMAIN asset_book
                 /\ OthersKept(c)
                 /\ a_count' = a_count]_vars

C3_Witness ==
    /\ last.op = "update_asset_supply"
    /\ ReturnedTrue(last)
    /\ last.code \in registered
    /\ asset_book[last.code].description = "USD Coin"
    /\ \E o \in registered : o # last.code

\* C4: update_asset_supply on a code that was never registered aborts with
\* "Asset does not exist!" and changes nothing: no record appears for the code
\* (get_asset_info still gives the not-found record), no other record changes
\* and the counter keeps its value.
C4_UpdateUnknownRejected ==
    [][\A c \in Codes : (c \notin registered /\ Calls("update_asset_supply", c)) =>
        \A s \in Supplies :
          update_asset_supply(c, s) =>
              /\ PanickedWith(last', "Asset does not exist!")
              /\ c \notin DOMAIN asset_book'
              /\ ~IsActive(asset_book', c)
              /\ get_asset_info_of(asset_book', c).asset_code = "NOT_FOUND"
              /\ asset_book' = asset_book
              /\ a_count' = a_count
              /\ ttl' = ttl]_vars

C4_Witness ==
    /\ last.op = "update_asset_supply"
    /\ PanickedWith(last, "Asset does not exist!")
    /\ last.code \notin registered
    /\ registered # {}

\* C5: for every code that has never been successfully registered,
\* get_asset_info gives the not-found record: is_active false, asset_code
\* "NOT_FOUND", total_supply 0, registration_time 0 -- in every reachable state,
\* and as the value a get_asset_info call on such a code returned.
IsSentinel(r) ==
    /\ r.is_active = FALSE
    /\ r.asset_code = "NOT_FOUND"
    /\ r.total_supply = 0
    /\ r.registration_time = 0

C5_UnregisteredIsSentinel ==
    /\ \A c \in Codes \ registered : IsSentinel(get_asset_info_of(asset_book, c))
    /\ (last.op = "get_asset_info" /\ last.code \notin registered)
           => IsSentinel(last.outcome.val)

C5_Witness ==
    /\ last.op = "get_asset_info"
    /\ last.code \notin registered
    /\ registered # {}
    /\ \E o \in registered : asset_book[o].total_supply # 0 /\ asset_book[o].registration_time > 0

\* C6: in every reachable state get_total_assets equals the number of codes
\* with an active record, which is the number of successful registrations; it
\* is 0 before any registration, every successful register_asset raises it by
\* exactly one, no other step changes it, and a get_total_assets call returns it.
CountMatches ==
    /\ get_total_assets_of(a_count) = Cardinality(ActiveCodes)
    /\ get_total_assets_of(a_count) = Cardinality(registered)
    /\ (registered = {} => get_total_assets_of(a_count) = 0)

CountStep ==
    LET before == get_total_assets_of(a_count)
        after == get_total_assets_of(a_count')
    IN /\ after >= before
       /\ (registered' # registered) => after = before + 1
       /\ (registered' = registered) => after = before
       /\ get_total_assets => last'.outcome.val = Cardinality(ActiveCodes)

C6_CountIsRegistrations == [](CountMatches) /\ [][CountStep]_vars

C6_Witness ==
    /\ last.op = "get_total_assets"
    /\ last.outcome.val = 2
    /\ Cardinality(registered) = 2

\* C7 as stated: after a successful register_asset the stored registration_time
\* is greater than 0, whatever the ledger clock returned.
C7_Original ==
    (last.op = "register_asset" /\ ReturnedTrue(last))
        => get_asset_info_of(asset_book, last.code).registration_time > 0

\* C7 as amended: after a successful register_asset the stored
\* registration_time equals the ledger timestamp read by the call, so it is
\* greater than 0 exactly when that timestamp is (a ledger whose timestamp is
\* 0, as in the default test environment, gives registration_time 0).
C7_TimeIsLedgerTimestamp ==
    [][\A c \in Codes : (~IsActive(asset_book, c) /\ Calls("register_asset", c)) =>
        \A i \in Addresses, s \in Supplies, d \in Descriptions :
          register_asset(c, i, s, d) =>
              LET t == get_asset_info_of(asset_book', c).registration_time IN
              /\ t = now
              /\ (t > 0) <=> (now > 0)]_vars

C7_Witness ==
    /\ last.op = "register_asset"
    /\ ReturnedTrue(last)
    /\ asset_book[last.code].registration_time > 0
    /\ \E o \in registered : asset_book[o].registration_time = 0

\* C8: once a code is registered its registration_time never changes, whatever
\* register_asset and update_asset_supply calls follow and however the ledger
\* clock advances; the value it keeps is the timestamp of its registration.
C8_RegistrationTimeFixed ==
    [][\A c \in Codes :
          /\ c \in registered =>
                get_asset_info_of(asset_book', c).registration_time
                    = get_asset_info_of(asset_book, c).registration_time
          /\ (c \notin registered /\ c \in registered') =>
                get_asset_info_of(asset_book', c).registration_time = now]_vars

C8_Witness ==
    /\ last.op = "update_asset_supply"
    /\ ReturnedTrue(last)
    /\ asset_book[last.code].registration_time = 0
    /\ now > 0
    /\ \E o \in registered : asset_book[o].registration_time > 0

\* C9: once get_asset_info(c).is_active is true it is true in every later
\* state and the record stays stored; a code goes from absent to active at
\* most once.
C9_ActiveForever ==
    [][\A c \in Codes :
          /\ IsActive(asset_book, c) =>
                (IsActive(asset_book', c) /\ c \in DOMAIN asset_book')
          /\ (~IsActive(asset_book, c) /\ IsActive(asset_book', c)) =>
                c \notin registered]_vars

C9_Witness ==
    /\ last.op = "update_asset_supply"
    /\ ReturnedTrue(last)
    /\ IsActive(asset_book, last.code)
    /\ asset_book[last.code].total_supply < 0
    /\ asset_book[last.code].registration_time < now

\* C10: every record held in storage has is_active true, so get_asset_info
\* gives is_active false exactly for the codes with no stored record; a
\* rejected update_asset_supply leaves no record behind.
C10_StoredIsActive ==
    /\ \A c \in DOMAIN asset_book : asset_book[c].is_active = TRUE
    /\ \A c \in Codes :
          (get_asset_info_of(asset_book, c).is_active = FALSE) <=> (c \notin DOMAIN asset_book)

C10_Witness ==
    /\ last.op = "update_asset_supply"
    /\ PanickedWith(last, "Asset does not exist!")
    /\ last.code \notin DOMAIN asset_book
    /\ "NOT_FOUND" \in DOMAIN asset_book

====
